---- MODULE Spec2Model ----
(***************************************************************************)
(* Model of ArweaveClient.get_all_transaction_summaries and the helpers it *)
(* calls (src/ar_onchain_util.py): the cursor-paginated crawl with retry,  *)
(* duplicate renaming, finality filter, cap and checkpoint file.           *)
(*                                                                         *)
(* One action is one network attempt (one self._session.post) together     *)
(* with everything the code does up to the next network attempt or to the  *)
(* end of the call.  The upstream service is a finite list of edges; the   *)
(* cursor of the i-th edge is the opaque token "c<i>" and a request with   *)
(* cursor c and limit L is answered with the at most L edges that follow   *)
(* the edge whose cursor is c ("" = from the start).                       *)
(***************************************************************************)
EXTENDS Integers, Sequences, FiniteSets, TLC

(* ------------------------------ bounds -------------------------------- *)
MaxUpstream == 3
MaxRuns == 2

(* ------------------------- program constants -------------------------- *)
\* ArweaveConfig defaults
ConfigMaxRetries == 3
ConfigRetryDelay == 1
ConfigBatchSleepTime == 1
ConfigMaxBatchSize == 500
ConfigInitialBatchSize == 100
\* get_transaction_summary_stats: defaults of the parameters the driver
\* never passes
StatsMaxRetries == 3
StatsLimit == 100

(* ------------------------------ values -------------------------------- *)
\* Python None for an optional argument; Some(v) is a given value
None == <<>>
Some(v) == <<v>>
\* JSON null and JSON integer as they sit in a decoded edge
JNull == [t |-> "null"]
JInt(n) == [t |-> "int", v |-> n]

RECURSIVE SeqsUpTo(_, _)
SeqsUpTo(S, n) ==
    IF n = 0 THEN {<<>>}
    ELSE LET shorter == SeqsUpTo(S, n - 1)
         IN  shorter \cup {Append(s, x) : s \in {q \in shorter : Len(q) = n - 1}, x \in S}

\* what the upstream may hold
UpstreamIds == {"b", "1-b"}
\* a mined block, and the two shapes of a transaction that is not final: no
\* block, and a block without a height
CrawlNodes == {[id |-> "b", block |-> [height |-> JInt(7)]],
               [id |-> "b", block |-> JNull],
               [id |-> "1-b", block |-> [height |-> JInt(7)]],
               [id |-> "1-b", block |-> [height |-> JNull]]}
ResumeNodes == {[id |-> "b", block |-> [height |-> JInt(7)]],
                [id |-> "b", block |-> JNull]}
OptionNodes == {[id |-> "b", block |-> [height |-> JInt(7)]]}
CursorOf(i) == "c" \o ToString(i)
Upstreams(nodes) ==
    {[i \in 1..Len(ns) |-> [cursor |-> CursorOf(i), node |-> ns[i]]] :
        ns \in SeqsUpTo(nodes, MaxUpstream)}

\* what a caller may pass
ArgInitialBatchSize == {Some(1), Some(2)}
ArgMaxBatchSize == {None}
ArgMaxRetries == {Some(1), Some(2)}
ArgMaxTotal == {None, Some(1), Some(2)}
ArgCheckPoint == {[path |-> None, step |-> 100],
                  [path |-> Some("ckpt.json"), step |-> 1],
                  [path |-> Some("ckpt.json"), step |-> 2],
                  [path |-> Some("ckpt.json"), step |-> 0],
                  [path |-> Some("ckpt.json"), step |-> -1]}
CallArgs ==
    {[initial_batch_size |-> ib, max_batch_size |-> mb, max_retries |-> mr,
      retry_delay |-> None, batch_sleep_time |-> None,
      max_total_transactions |-> mt,
      min_ingested_at |-> None, max_ingested_at |-> None,
      min_block |-> None, max_block |-> None,
      include_non_final |-> nf,
      check_point_path |-> cp.path, check_point_step |-> cp.step] :
        ib \in ArgInitialBatchSize, mb \in ArgMaxBatchSize, mr \in ArgMaxRetries,
        mt \in ArgMaxTotal, nf \in BOOLEAN, cp \in ArgCheckPoint}

\* callers that leave an optional number out, pass 0 for it or pass a value,
\* and callers that bound the query by ingestion time or by block height
OptInitialBatchSize == {None, Some(0), Some(2)}
OptMaxBatchSize == {None, Some(0), Some(3)}
OptMaxRetries == {None, Some(0), Some(1)}
OptRetryDelay == {None, Some(0), Some(2)}
OptBatchSleepTime == {None, Some(0), Some(2)}
OptBounds == {[min |-> None, max |-> None], [min |-> Some(1), max |-> Some(2)],
              [min |-> Some(2), max |-> Some(2)], [min |-> Some(2), max |-> Some(1)]}
OptRanges ==
    {r \in [ingested_at : OptBounds, block : OptBounds] :
        r.ingested_at.min = None \/ r.block.min = None}
OptionArgs ==
    {[initial_batch_size |-> ib, max_batch_size |-> mb, max_retries |-> mr,
      retry_delay |-> rd, batch_sleep_time |-> bs,
      max_total_transactions |-> None,
      min_ingested_at |-> rg.ingested_at.min, max_ingested_at |-> rg.ingested_at.max,
      min_block |-> rg.block.min, max_block |-> rg.block.max,
      include_non_final |-> TRUE,
      check_point_path |-> None, check_point_step |-> 100] :
        ib \in OptInitialBatchSize, mb \in OptMaxBatchSize, mr \in OptMaxRetries,
        rd \in OptRetryDelay, bs \in OptBatchSleepTime, rg \in OptRanges}

NoArgs == [initial_batch_size |-> None, max_batch_size |-> None, max_retries |-> None,
           retry_delay |-> None, batch_sleep_time |-> None,
           max_total_transactions |-> None,
           min_ingested_at |-> None, max_ingested_at |-> None,
           min_block |-> None, max_block |-> None,
           include_non_final |-> TRUE,
           check_point_path |-> None, check_point_step |-> 100]

VARIABLES
    scope,                  \* what the environment does in this behaviour
    budget,                 \* failing attempts the environment may still inject
    upstream,               \* the edges the service holds, in its sort order
    pc,                     \* "idle" | "count" | "page" | "done" | "raised"
    runs,                   \* calls of get_all_transaction_summaries started
    args,                   \* the arguments of the current call
    max_retries,            \* locals of get_all_transaction_summaries
    retry_delay,
    batch_sleep_time,
    all_transactions,
    cursor,
    batch_size,
    actual_max_batch_size,
    seen_ids,
    total_count,
    attempt,                \* index of the driver's retry loop (line 456)
    stats_attempt,          \* index of get_transaction_summary_stats' loop (line 326)
    result,                 \* None, or Some(returned list)
    check_point_file,       \* None (no file), or Some(text of the file)
    error_log,              \* lines of error_cursors.log
    \* observations of the run, read only by the properties
    received,               \* edges of the paging responses accepted in this run
    count_edges,            \* None, or Some(number of edges in the count response)
    net_attempts,           \* network attempts made for the current request
    page_logs,              \* error-log lines written for the current request
    last_page,              \* None, or Some(what the last accepted page was)
    loaded,                 \* None, or Some(list read from the checkpoint file)
    saved,                  \* None, or Some(list handed to the last successful save)
    saves,                  \* successful saves of this run
    end_reason,             \* why the run left the loop
    save_at,                \* None, or Some(length accumulated when line 521 last held)
    sent,                   \* None, or Some(payload of the last network attempt)
    prev                    \* None, or Some(what the call before this one did)

vars == <<scope, budget, upstream, pc, runs, args, max_retries, retry_delay,
          batch_sleep_time, all_transactions, cursor, batch_size,
          actual_max_batch_size, seen_ids, total_count, attempt, stats_attempt, result,
          check_point_file, error_log, received, count_edges, net_attempts, page_logs,
          last_page, loaded, saved, saves, end_reason, save_at, sent, prev>>

(* --------------------------- pure helpers ----------------------------- *)
\* Python's  x or default  on an optional number (lines 409-413): None and 0
\* are both falsy
OrDefault(x, default) == IF x = None \/ x[1] = 0 THEN default ELSE x[1]

\* Python's truth value of an optional number (lines 448, 452, 537)
Truthy(x) == x # None /\ x[1] # 0

Min(a, b) == IF a <= b THEN a ELSE b

\* the upstream service: the edges after the one whose cursor is c, at most
\* limit of them
\* (a null or empty  after  starts from the first edge)
NoneCursor == "None"
PosOf(up, c) ==
    IF c \in {"", NoneCursor} THEN 0 ELSE CHOOSE i \in 1..Len(up) : up[i].cursor = c
ServePage(up, c, limit) == SubSeq(up, PosOf(up, c) + 1, Min(PosOf(up, c) + limit, Len(up)))

\* faulty variant: any block makes a transaction final, with or without a height
_is_final_txAnyBlock(tx) ==
    IF tx.node.block # JNull THEN TRUE ELSE FALSE

\* _is_final_tx (lines 556-561)
_is_final_tx(tx) ==
    IF tx.node.block # JNull /\ tx.node.block.height.t = "int" THEN TRUE ELSE FALSE

\* faulty variant: the duplicate is numbered with its occurrence count, not count - 1
ModifiedTxNumberedFromTwo(tx, n) ==
    [cursor |-> tx.cursor,
     node |-> [id |-> ToString(n) \o "-" \o tx.node.id,
               block |-> tx.node.block,
               original_id |-> tx.node.id]]

\* the renamed copy of a duplicate (lines 495-499)
ModifiedTx(tx, n) ==
    [cursor |-> tx.cursor,
     node |-> [id |-> ToString(n - 1) \o "-" \o tx.node.id,
               block |-> tx.node.block,
               original_id |-> tx.node.id]]

\* faulty variant: a kept transaction is put in front of the ones kept before it
RECURSIVE ProcessPagePrepends(_, _, _, _, _)
ProcessPagePrepends(new_transactions, i, seen, unique_new_transactions, include_non_final) ==
    IF i > Len(new_transactions)
    THEN [seen_ids |-> seen, unique_new_transactions |-> unique_new_transactions]
    ELSE LET tx0 == new_transactions[i]
             tx_id == tx0.node.id
             seen1 == [seen EXCEPT ![tx_id] = @ + 1]
             tx == IF seen1[tx_id] > 1 THEN ModifiedTx(tx0, seen1[tx_id]) ELSE tx0
         IN  IF ~include_non_final /\ ~_is_final_tx(tx)
             THEN ProcessPagePrepends(new_transactions, i + 1, seen1,
                                      unique_new_transactions, include_non_final)
             ELSE ProcessPagePrepends(new_transactions, i + 1, seen1,
                                      <<tx>> \o unique_new_transactions, include_non_final)

\* the loop over one page (lines 488-506), from element i on: the seen
\* counts and the kept transactions
RECURSIVE ProcessPage(_, _, _, _, _)
ProcessPage(new_transactions, i, seen, unique_new_transactions, include_non_final) ==
    IF i > Len(new_transactions)
    THEN [seen_ids |-> seen, unique_new_transactions |-> unique_new_transactions]
    ELSE LET tx0 == new_transactions[i]
             tx_id == tx0.node.id
             seen1 == [seen EXCEPT ![tx_id] = @ + 1]
             tx == IF seen1[tx_id] > 1 THEN ModifiedTx(tx0, seen1[tx_id]) ELSE tx0
         IN  IF ~include_non_final /\ ~_is_final_tx(tx)
             THEN ProcessPage(new_transactions, i + 1, seen1,
                              unique_new_transactions, include_non_final)
             ELSE ProcessPage(new_transactions, i + 1, seen1,
                              Append(unique_new_transactions, tx), include_non_final)

\* _update_batch_size (lines 563-578): the pair (current_size, max_size)
_update_batch_size(new_count, current_size, max_size) ==
    IF new_count = current_size
    THEN LET doubled == Min(current_size * 2, max_size)
         IN  IF doubled > max_size
             THEN <<current_size, current_size>>
             ELSE <<doubled, max_size>>
    ELSE IF new_count < current_size
         THEN <<new_count, new_count>>
         ELSE <<current_size, max_size>>

\* what the driver does with that pair (line 533): the call's value is
\* dropped, batch_size and actual_max_batch_size stay as they are
AfterUpdateBatchSize(new_count, current_size, max_size) ==
    LET dropped == _update_batch_size(new_count, current_size, max_size)
    IN  <<current_size, max_size>>

(* ----------------------- checkpoint file (JSON) ----------------------- *)
JStr(s) == [t |-> "str", v |-> s]
JObj(pairs) == [t |-> "obj", v |-> pairs]
ObjHas(j, k) == \E i \in 1..Len(j.v) : j.v[i][1] = k
ObjGet(j, k) == j.v[CHOOSE i \in 1..Len(j.v) : j.v[i][1] = k][2]

DumpBlock(b) == IF b = JNull THEN JNull ELSE JObj(<< <<"height", b.height>> >>)
DumpNode(n) ==
    JObj(<< <<"id", JStr(n.id)>>, <<"block", DumpBlock(n.block)>> >>
         \o (IF "original_id" \in DOMAIN n
             THEN << <<"original_id", JStr(n.original_id)>> >> ELSE <<>>))
DumpTx(tx) == JObj(<< <<"cursor", JStr(tx.cursor)>>, <<"node", DumpNode(tx.node)>> >>)
\* json.dump(transactions, f) (line 547)
json_dump(transactions) ==
    [t |-> "arr", v |-> [i \in 1..Len(transactions) |-> DumpTx(transactions[i])]]

LoadBlock(j) == IF j.t = "null" THEN JNull ELSE [height |-> ObjGet(j, "height")]
LoadNode(j) ==
    IF ObjHas(j, "original_id")
    THEN [id |-> ObjGet(j, "id").v, block |-> LoadBlock(ObjGet(j, "block")),
          original_id |-> ObjGet(j, "original_id").v]
    ELSE [id |-> ObjGet(j, "id").v, block |-> LoadBlock(ObjGet(j, "block"))]
LoadTx(j) == [cursor |-> ObjGet(j, "cursor").v, node |-> LoadNode(ObjGet(j, "node"))]
\* json.load(f) (line 442)
json_load(text) == [i \in 1..Len(text.v) |-> LoadTx(text.v[i])]

\* How a save can go (lines 545-549): the file is written; open() raises and
\* the file is untouched; or open(path, 'w') has truncated the file and the
\* write, flush or close raises
SaveOutcomes == {"ok", "open_fails", "write_fails"}

\* What a write that failed midway leaves (lines 545-549): a text cut short,
\* possibly empty, which json.load does not accept
TornText == [t |-> "torn", v |-> <<>>]

\* json.load(f) raises json.JSONDecodeError on this text (line 442)
JSONDecodeError(text) == text.t = "torn"

\* faulty variant: the save leaves out the record accumulated last
_save_checkpointWithoutLast(file, transactions, outcome) ==
    IF outcome = "ok"
    THEN Some(json_dump(SubSeq(transactions, 1, Len(transactions) - 1)))
    ELSE IF outcome = "open_fails" THEN file
    ELSE Some(TornText)

\* _save_checkpoint (lines 543-554): the file after the call.  Every
\* exception is swallowed: when open() raises the file is as before, when the
\* write raises after open() truncated the file a cut text is left
_save_checkpoint(file, transactions, outcome) ==
    IF outcome = "ok" THEN Some(json_dump(transactions))
    ELSE IF outcome = "open_fails" THEN file
    ELSE Some(TornText)

\* faulty variant: the resume cursor is taken from the first record of the file
ReadCheckpointFirstCursor(path, file) ==
    IF path # None /\ file # None
    THEN IF JSONDecodeError(file[1])
         THEN [all_transactions |-> <<>>, cursor |-> "", loaded |-> None,
               raised |-> TRUE]
         ELSE LET txs == json_load(file[1])
              IN  [all_transactions |-> txs,
                   cursor |-> IF Len(txs) > 0 THEN txs[1].cursor ELSE "",
                   loaded |-> Some(txs), raised |-> FALSE]
    ELSE [all_transactions |-> <<>>, cursor |-> "", loaded |-> None, raised |-> FALSE]

\* the checkpoint read (lines 440-445): the list and the cursor to resume at,
\* or json.load raising on a file that is not JSON, which no handler catches
ReadCheckpoint(path, file) ==
    IF path # None /\ file # None
    THEN IF JSONDecodeError(file[1])
         THEN [all_transactions |-> <<>>, cursor |-> "", loaded |-> None,
               raised |-> TRUE]
         ELSE LET txs == json_load(file[1])
              IN  [all_transactions |-> txs,
                   cursor |-> IF Len(txs) > 0 THEN txs[Len(txs)].cursor ELSE "",
                   loaded |-> Some(txs), raised |-> FALSE]
    ELSE [all_transactions |-> <<>>, cursor |-> "", loaded |-> None, raised |-> FALSE]

\* faulty variant: the cap test lets one more request through (> for >=)
CapReachedLate(max_total, txs) == Truthy(max_total) /\ Len(txs) > max_total[1]

\* the cap test at the head of the loop (line 452)
CapReached(max_total, txs) == Truthy(max_total) /\ Len(txs) >= max_total[1]

\* faulty variant: the cut keeps the last records
TruncateKeepsLast(max_total, txs) ==
    IF Truthy(max_total) /\ Len(txs) > max_total[1]
    THEN SubSeq(txs, Len(txs) - max_total[1] + 1, Len(txs)) ELSE txs

\* the truncation after the loop (lines 537-538)
Truncate(max_total, txs) ==
    IF Truthy(max_total) /\ Len(txs) > max_total[1]
    THEN SubSeq(txs, 1, max_total[1]) ELSE txs

\* faulty variant: the step is only used as a divisor, so a step of 0 or less
\* saves at every page
SaveDueAnyStep(path, step, txs) ==
    path # None /\ (step <= 0 \/ Len(txs) % step = 0)

\* the checkpoint cadence test (line 521)
SaveDue(path, step, txs) == path # None /\ step > 0 /\ Len(txs) % step = 0

\* The request get_transaction_summary_stats builds from its arguments (lines
\* 256-324): what is asked for, from where, how much and under which filters
Payload(is_initial_request, cur, limit, a) ==
    [is_initial_request |-> is_initial_request, cursor |-> cur, limit |-> limit,
     min_ingested_at |-> a.min_ingested_at, max_ingested_at |-> a.max_ingested_at,
     min_block |-> a.min_block, max_block |-> a.max_block]

\* faulty variant: a duplicate is renamed in place, so the page of the response
\* holds the renamed records
PageRenamedInPlace(new_transactions, unique_new_transactions) ==
    IF Len(unique_new_transactions) = Len(new_transactions)
    THEN unique_new_transactions ELSE new_transactions

\* The page of the response after the loop of lines 488-506: a duplicate is
\* renamed on dict(tx) and dict(tx["node"]) (lines 495-496), copies, and the
\* received records are left as they came
PageAfterLoop(new_transactions, unique_new_transactions) == new_transactions

\* faulty variant: the kept records of a page replace what was accumulated
ExtendReplaces(txs, unique_new_transactions) == unique_new_transactions

\* all_transactions.extend(unique_new_transactions) (line 516)
Extend(txs, unique_new_transactions) == txs \o unique_new_transactions

\* faulty variant: the records of the count response are counted as seen
SeenAfterCountCountsEdges(seen, list_tx) == ProcessPage(list_tx, 1, seen, <<>>, TRUE).seen_ids

\* The seen-id counts once the count response is in (lines 432-437): only
\* total_tx_count is read from it, its list_tx is not looked at
SeenAfterCount(seen, list_tx) == seen

\* faulty variant: a retry asks for a single record
AttemptPayloadShrinks(payload, n) == IF n > 0 THEN [payload EXCEPT !.limit = 1] ELSE payload

\* What attempt n of the retry loop posts (lines 326-328): the payload built
\* once before the loop
AttemptPayload(payload, n) == payload

\* faulty variant: the call starts from the checkpoint, before the count request
InitialLocalsFromCheckpoint(path, file) ==
    [all_transactions |-> ReadCheckpoint(path, file).all_transactions,
     cursor |-> ReadCheckpoint(path, file).cursor]

\* The accumulated list and the cursor a call starts with (lines 415-416),
\* whatever the checkpoint file holds
InitialLocals(path, file) == [all_transactions |-> <<>>, cursor |-> ""]

(* ------------------------------ actions ------------------------------- *)
ZeroSeen == [x \in UpstreamIds |-> 0]

\* faulty variant: the duplicate counter outlives the call
SeenKeptOnClient(seen) == seen

\* The duplicate counter a call starts with (line 419), whatever an earlier
\* call counted
FreshSeen(seen) == ZeroSeen

FailKinds == {"transport", "parse"}

\* The environment of a behaviour.  "crawl": one call without a checkpoint
\* path, in which any attempt may fail.  "resume": up to MaxRuns calls one
\* after the other on the same files, with the checkpoint path and a step of
\* 1 or 2, in which at most one request fails for good (StatsMaxRetries failing attempts
\* in all).  "options": one call without a checkpoint path whose optional
\* numbers are left out, 0 or given and whose ranges are good or bad, with
\* StatsMaxRetries failing attempts at most.  "repeat": up to MaxRuns calls one
\* after the other without a checkpoint path, each call remembered for the
\* next one to be compared with.  "nosave": up to MaxRuns calls one after the
\* other on the same files, without a cap, whose checkpoint step is 1, 0 or
\* negative or which pass no checkpoint path.
CrawlArgs == {a \in CallArgs : a.check_point_path = None}
ResumeArgs ==
    {a \in CallArgs :
        /\ a.max_retries = Some(1)
        /\ a.max_total_transactions # Some(2)
        /\ a.check_point_path # None
        /\ a.check_point_step > 0}
NoSaveArgs ==
    {a \in CallArgs :
        /\ a.max_retries = Some(1)
        /\ a.max_total_transactions = None
        /\ a.check_point_step # 2}
RepeatArgs ==
    {a \in CallArgs :
        /\ a.max_retries = Some(1)
        /\ a.max_total_transactions # Some(2)
        /\ a.check_point_path = None}
ScopeNodes(sc) ==
    IF sc = "crawl" THEN CrawlNodes ELSE IF sc = "options" THEN OptionNodes ELSE ResumeNodes
ScopeArgs(sc) ==
    IF sc = "crawl" THEN CrawlArgs ELSE IF sc = "resume" THEN ResumeArgs
    ELSE IF sc = "repeat" THEN RepeatArgs
    ELSE IF sc = "nosave" THEN NoSaveArgs ELSE OptionArgs
ScopeRuns(sc) == IF sc \in {"resume", "repeat", "nosave"} THEN MaxRuns ELSE 1
ScopeFailures(sc) == IF sc = "crawl" THEN 1 ELSE StatsMaxRetries
Spend(sc, b) == IF sc = "crawl" THEN b ELSE b - 1

InitLocals ==
    /\ pc = "idle"
    /\ runs = 0
    /\ args = NoArgs
    /\ max_retries = ConfigMaxRetries
    /\ retry_delay = ConfigRetryDelay
    /\ batch_sleep_time = ConfigBatchSleepTime
    /\ all_transactions = <<>>
    /\ cursor = ""
    /\ batch_size = ConfigInitialBatchSize
    /\ actual_max_batch_size = ConfigMaxBatchSize
    /\ seen_ids = ZeroSeen
    /\ total_count = 0
    /\ attempt = 0
    /\ stats_attempt = 0
    /\ result = None
    /\ check_point_file = None
    /\ error_log = <<>>
    /\ received = <<>>
    /\ count_edges = None
    /\ net_attempts = 0
    /\ page_logs = 0
    /\ last_page = None
    /\ loaded = None
    /\ saved = None
    /\ saves = 0
    /\ end_reason = ""
    /\ save_at = None
    /\ sent = None
    /\ prev = None

\* faulty variant: equal bounds pass the validation (> for >=)
RangeErrorUnlessEqual(a) ==
    \/ /\ a.min_ingested_at # None /\ a.max_ingested_at # None
       /\ a.min_ingested_at[1] > a.max_ingested_at[1]
    \/ /\ a.min_block # None /\ a.max_block # None
       /\ a.min_block[1] > a.max_block[1]

\* The parameter validation of get_transaction_summary_stats (lines 223-230)
RangeError(a) ==
    \/ /\ a.min_ingested_at # None /\ a.max_ingested_at # None
       /\ a.min_ingested_at[1] >= a.max_ingested_at[1]
    \/ /\ a.min_block # None /\ a.max_block # None
       /\ a.min_block[1] >= a.max_block[1]

\* A call of get_all_transaction_summaries, up to its first network attempt
\* (lines 408-419 and the entry of get_transaction_summary_stats for the count
\* request, lines 422-430 and 223-230, where a bad range raises ValueError)
Start(a) ==
    /\ pc \in {"idle", "done", "raised"}
    /\ runs < ScopeRuns(scope)
    /\ a \in ScopeArgs(scope)
    /\ runs' = runs + 1
    /\ args' = a
    /\ max_retries' = OrDefault(a.max_retries, ConfigMaxRetries)
    /\ retry_delay' = OrDefault(a.retry_delay, ConfigRetryDelay)
    /\ batch_sleep_time' = OrDefault(a.batch_sleep_time, ConfigBatchSleepTime)
    /\ batch_size' = OrDefault(a.initial_batch_size, ConfigInitialBatchSize)
    /\ actual_max_batch_size' = OrDefault(a.max_batch_size, ConfigMaxBatchSize)
    /\ all_transactions' = InitialLocals(a.check_point_path, check_point_file).all_transactions
    /\ cursor' = InitialLocals(a.check_point_path, check_point_file).cursor
    /\ seen_ids' = FreshSeen(seen_ids)
    /\ total_count' = 0
    /\ attempt' = 0
    /\ stats_attempt' = 0
    /\ result' = None
    /\ pc' = IF RangeError(a) THEN "raised" ELSE "count"
    /\ received' = <<>>
    /\ count_edges' = None
    /\ net_attempts' = 0
    /\ page_logs' = 0
    /\ last_page' = None
    /\ loaded' = None
    /\ saves' = 0
    /\ save_at' = None
    /\ sent' = None
    /\ prev' = IF scope = "repeat" /\ pc = "done"
               THEN Some([args |-> args, received |-> received,
                          end_reason |-> end_reason, result |-> result[1]])
               ELSE None
    /\ end_reason' = IF RangeError(a) THEN "invalid" ELSE ""
    /\ UNCHANGED <<scope, budget, upstream, check_point_file, error_log, saved>>

\* The end of the call after the loop (lines 537-541)
Return(txs, why) ==
    /\ result' = Some(Truncate(args.max_total_transactions, txs))
    /\ pc' = "done"
    /\ end_reason' = why

\* The head of the while loop (lines 451-453) once txs is accumulated: leave
\* on the cap, or go on to the next request
LoopHead(txs) ==
    IF CapReached(args.max_total_transactions, txs)
    THEN Return(txs, "cap")
    ELSE /\ pc' = "page"
         /\ UNCHANGED <<result, end_reason>>

\* The count request answers (lines 336-342), then lines 432-453; a
\* checkpoint file that is not JSON makes json.load raise out of the call
CountOk ==
    /\ pc = "count"
    /\ LET ck == ReadCheckpoint(args.check_point_path, check_point_file)
           request == AttemptPayload(Payload(TRUE, "", StatsLimit, args), stats_attempt)
       IN  /\ sent' = Some(request)
           /\ count_edges' = Some(Len(ServePage(upstream, request.cursor, request.limit)))
           /\ total_count' = Len(upstream)
           /\ seen_ids' = SeenAfterCount(seen_ids,
                                         ServePage(upstream, request.cursor, request.limit))
           /\ all_transactions' = ck.all_transactions
           /\ cursor' = ck.cursor
           /\ loaded' = ck.loaded
           /\ IF ck.raised
              THEN /\ pc' = "raised"
                   /\ end_reason' = "raised"
                   /\ UNCHANGED result
              ELSE LoopHead(ck.all_transactions)
    /\ attempt' = 0
    /\ stats_attempt' = 0
    /\ UNCHANGED <<scope, upstream, runs, args, max_retries, retry_delay,
                   batch_sleep_time, batch_size, actual_max_batch_size,
                   check_point_file, error_log, received, net_attempts,
                   page_logs, last_page, saved, saves, budget, save_at, prev>>

\* faulty variant: a run whose count request failed hands back the checkpoint
CountFailedResultFromCheckpoint(path, file) == ReadCheckpoint(path, file).all_transactions

\* What the call returns when the count request came back None (lines
\* 432-434): the empty list, the checkpoint file not yet looked at
CountFailedResult(path, file) == <<>>

\* An attempt of the count request fails with a transport or a parse error
\* (lines 344-359); on the last attempt the cursor is logged, None comes
\* back and the call returns [] (lines 432-434)
CountFail(kind) ==
    /\ pc = "count"
    /\ kind \in FailKinds
    /\ budget > 0
    /\ budget' = Spend(scope, budget)
    /\ sent' = Some(AttemptPayload(Payload(TRUE, "", StatsLimit, args), stats_attempt))
    /\ IF stats_attempt < StatsMaxRetries - 1
       THEN /\ stats_attempt' = stats_attempt + 1
            /\ UNCHANGED <<pc, result, error_log, end_reason>>
       ELSE /\ error_log' = Append(error_log, "")
            /\ result' = Some(CountFailedResult(args.check_point_path, check_point_file))
            /\ pc' = "done"
            /\ end_reason' = "count_failed"
            /\ UNCHANGED stats_attempt
    /\ UNCHANGED <<scope, upstream, runs, args, max_retries, retry_delay,
                   batch_sleep_time, all_transactions, cursor, batch_size,
                   actual_max_batch_size, seen_ids, total_count, attempt, check_point_file,
                   received, count_edges, net_attempts, page_logs, last_page, loaded,
                   saved, saves, save_at, prev>>

\* The service answers with an "errors" payload: ArweaveQueryError is raised
\* at line 334, no except clause of lines 344-359 catches it, and it leaves
\* get_all_transaction_summaries
ErrorPayload ==
    /\ pc \in {"count", "page"}
    /\ net_attempts' = IF pc = "page" THEN net_attempts + 1 ELSE net_attempts
    /\ sent' = Some(AttemptPayload(IF pc = "count"
                                    THEN Payload(TRUE, "", StatsLimit, args)
                                    ELSE Payload(FALSE, cursor, batch_size, args),
                                    stats_attempt))
    /\ pc' = "raised"
    /\ end_reason' = "raised"
    /\ UNCHANGED <<scope, upstream, runs, args, max_retries, retry_delay,
                   batch_sleep_time, all_transactions, cursor, batch_size,
                   actual_max_batch_size, seen_ids, total_count, attempt, stats_attempt,
                   result, check_point_file, error_log, received, count_edges, page_logs,
                   last_page, loaded, saved, saves, budget, save_at, prev>>

\* faulty variant: the empty-page break is missing and an empty page counts as a page
\* to continue from
PageExitIgnoresEmpty(new_transactions, unique_new_transactions) ==
    IF Len(new_transactions) > 0 /\ Len(unique_new_transactions) = 0 THEN "nothing_kept"
    ELSE "continue"

\* faulty variant: the nothing-kept break is missing and the loop goes on
PageExitIgnoresNothingKept(new_transactions, unique_new_transactions) ==
    IF Len(new_transactions) = 0 THEN "empty" ELSE "continue"

\* How an accepted page ends the iteration: the two breaks (lines 480-481 and
\* 527-528), or on to the cursor update
PageExit(new_transactions, unique_new_transactions) ==
    IF Len(new_transactions) = 0 THEN "empty"
    ELSE IF Len(unique_new_transactions) = 0 THEN "nothing_kept"
    ELSE "continue"

\* faulty variant: the next request resumes after the first record kept
NextCursorFirstKept(unique_new_transactions) ==
    IF Len(unique_new_transactions) > 0
    THEN unique_new_transactions[1].cursor
    ELSE NoneCursor

\* faulty variant: a failed save ends the run as if the page had kept nothing
AfterSaveAborts(due, write_ok, exit) == IF due /\ ~write_ok THEN "nothing_kept" ELSE exit

\* The save of lines 521-525 in the control flow of the iteration: whatever
\* _save_checkpoint does or raises is caught, and the iteration goes on as it
\* would without the save
AfterSave(due, write_ok, exit) == exit

\* The cursor of the next request (line 530)
NextCursor(unique_new_transactions) ==
    IF Len(unique_new_transactions) > 0
    THEN unique_new_transactions[Len(unique_new_transactions)].cursor
    ELSE NoneCursor

\* A paging request answers (lines 336-342), then lines 470-535 and the head
\* of the loop, where the driver's attempt index is rebound only if the loop
\* goes on (line 456)
PageOk(outcome) ==
    /\ pc = "page"
    /\ outcome \in SaveOutcomes
    /\ LET write_ok == outcome = "ok"
           request == AttemptPayload(Payload(FALSE, cursor, batch_size, args),
                                     stats_attempt)
           new_transactions == ServePage(upstream, request.cursor, request.limit)
           p == ProcessPage(new_transactions, 1, seen_ids, <<>>, args.include_non_final)
           unique_new_transactions == p.unique_new_transactions
           txs == Extend(all_transactions, unique_new_transactions)
           due == SaveDue(args.check_point_path, args.check_point_step, txs)
           sizes == AfterUpdateBatchSize(Len(new_transactions), batch_size,
                                         actual_max_batch_size)
           exit == AfterSave(due, write_ok,
                             PageExit(new_transactions, unique_new_transactions))
       IN  /\ sent' = Some(request)
           /\ last_page' = Some([cursor |-> cursor, requested |-> batch_size,
                                 max_size |-> actual_max_batch_size,
                                 received |-> Len(new_transactions),
                                 kept |-> Len(unique_new_transactions),
                                 update |-> _update_batch_size(Len(new_transactions),
                                               batch_size, actual_max_batch_size)])
           /\ IF exit = "empty"
              THEN /\ Return(all_transactions, "empty")
                   /\ write_ok
                   /\ net_attempts' = net_attempts + 1
                   /\ UNCHANGED <<all_transactions, cursor, batch_size,
                                  actual_max_batch_size, seen_ids, check_point_file,
                                  received, saved, saves, save_at, attempt,
                                  stats_attempt, page_logs>>
              ELSE /\ (~due => write_ok)
                   /\ seen_ids' = p.seen_ids
                   /\ all_transactions' = txs
                   /\ received' = received \o PageAfterLoop(new_transactions,
                                                            unique_new_transactions)
                   /\ check_point_file' =
                        IF due THEN _save_checkpoint(check_point_file, txs, outcome)
                        ELSE check_point_file
                   /\ saved' = IF due /\ write_ok THEN Some(txs) ELSE saved
                   /\ saves' = IF due /\ write_ok THEN saves + 1 ELSE saves
                   /\ save_at' = IF due THEN Some(Len(txs)) ELSE save_at
                   /\ IF exit = "nothing_kept"
                      THEN /\ Return(txs, "nothing_kept")
                           /\ net_attempts' = net_attempts + 1
                           /\ UNCHANGED <<cursor, batch_size, actual_max_batch_size,
                                          attempt, stats_attempt, page_logs>>
                      ELSE /\ cursor' = NextCursor(unique_new_transactions)
                           /\ batch_size' = sizes[1]
                           /\ actual_max_batch_size' = sizes[2]
                           /\ LoopHead(txs)
                           /\ attempt' = IF CapReached(args.max_total_transactions, txs)
                                         THEN attempt ELSE 0
                           /\ stats_attempt' = 0
                           /\ net_attempts' = 0
                           /\ page_logs' = 0
    /\ UNCHANGED <<scope, budget, upstream, runs, args, max_retries, retry_delay,
                   batch_sleep_time, total_count,
                   error_log, count_edges, loaded, prev>>

\* faulty variant: a failed attempt rewinds the driver to the first page
PageFailRewinds(kind) ==
    /\ pc = "page"
    /\ net_attempts' = net_attempts + 1
    /\ kind \in FailKinds
    /\ cursor' = ""
    /\ budget > 0
    /\ budget' = Spend(scope, budget)
    /\ sent' = Some(AttemptPayload(Payload(FALSE, cursor, batch_size, args), stats_attempt))
    /\ IF stats_attempt < StatsMaxRetries - 1
       THEN /\ stats_attempt' = stats_attempt + 1
            /\ UNCHANGED <<pc, result, error_log, end_reason, attempt, page_logs>>
       ELSE /\ error_log' = Append(error_log, cursor)
            /\ page_logs' = page_logs + 1
            /\ IF attempt < max_retries - 1
               THEN /\ attempt' = attempt + 1
                    /\ stats_attempt' = 0
                    /\ UNCHANGED <<pc, result, end_reason>>
               ELSE /\ Return(all_transactions, "failed")
                    /\ UNCHANGED <<attempt, stats_attempt>>
    /\ UNCHANGED <<scope, upstream, runs, args, max_retries, retry_delay,
                   batch_sleep_time, all_transactions, batch_size,
                   actual_max_batch_size, seen_ids, total_count, check_point_file,
                   received, count_edges, last_page, loaded, saved, saves, save_at, prev>>

\* An attempt of a paging request fails with a transport or a parse error
\* (lines 344-359).  On the last attempt of get_transaction_summary_stats the
\* cursor is logged and None comes back to the driver's retry loop (lines
\* 456-477), which calls again or leaves the while loop
PageFail(kind) ==
    /\ pc = "page"
    /\ net_attempts' = net_attempts + 1
    /\ kind \in FailKinds
    /\ budget > 0
    /\ budget' = Spend(scope, budget)
    /\ sent' = Some(AttemptPayload(Payload(FALSE, cursor, batch_size, args), stats_attempt))
    /\ IF stats_attempt < StatsMaxRetries - 1
       THEN /\ stats_attempt' = stats_attempt + 1
            /\ UNCHANGED <<pc, result, error_log, end_reason, attempt, page_logs>>
       ELSE /\ error_log' = Append(error_log, cursor)
            /\ page_logs' = page_logs + 1
            /\ IF attempt < max_retries - 1
               THEN /\ attempt' = attempt + 1
                    /\ stats_attempt' = 0
                    /\ UNCHANGED <<pc, result, end_reason>>
               ELSE /\ Return(all_transactions, "failed")
                    /\ UNCHANGED <<attempt, stats_attempt>>
    /\ UNCHANGED <<scope, upstream, runs, args, max_retries, retry_delay,
                   batch_sleep_time, all_transactions, cursor, batch_size,
                   actual_max_batch_size, seen_ids, total_count, check_point_file,
                   received, count_edges, last_page, loaded, saved, saves, save_at, prev>>

\* A caller calls get_all_transaction_summaries (lines 367-385) when no call
\* is running, with arguments of its choice
Call ==
    /\ pc \in {"idle", "done", "raised"}
    /\ runs < ScopeRuns(scope)
    /\ \E a \in ScopeArgs(scope) : Start(a)

Next ==
    \/ Call
    \/ CountOk
    \/ \E k \in FailKinds : CountFail(k)
    \/ ErrorPayload
    \/ \E o \in SaveOutcomes : PageOk(o)
    \/ \E k \in FailKinds : PageFail(k)

Init ==
    /\ scope = "crawl"
    /\ budget = ScopeFailures(scope)
    /\ upstream \in Upstreams(ScopeNodes(scope))
    /\ InitLocals

InitResume ==
    /\ scope = "resume"
    /\ budget = ScopeFailures(scope)
    /\ upstream \in Upstreams(ScopeNodes(scope))
    /\ InitLocals

InitOptions ==
    /\ scope = "options"
    /\ budget = ScopeFailures(scope)
    /\ upstream \in Upstreams(ScopeNodes(scope))
    /\ InitLocals

Spec == Init /\ [][Next]_vars

SpecOptions == InitOptions /\ [][Next]_vars

SpecResume == InitResume /\ [][Next]_vars

InitRepeat ==
    /\ scope = "repeat"
    /\ budget = ScopeFailures(scope)
    /\ upstream \in Upstreams(ScopeNodes(scope))
    /\ InitLocals

SpecRepeat == InitRepeat /\ [][Next]_vars

InitNoSave ==
    /\ scope = "nosave"
    /\ budget = ScopeFailures(scope)
    /\ upstream \in Upstreams(ScopeNodes(scope))
    /\ InitLocals

SpecNoSave == InitNoSave /\ [][Next]_vars

(* ---------------------------- properties ------------------------------ *)
HasOriginalId(tx) == "original_id" \in DOMAIN tx.node
OriginalId(tx) == IF HasOriginalId(tx) THEN tx.node.original_id ELSE tx.node.id
Returned == result[1]
\* how many of the first i received edges carry the id of the i-th
Occurrence(i) ==
    Cardinality({j \in 1..i : received[j].node.id = received[i].node.id})
Cap == args.max_total_transactions
\* the received edges the finality filter lets through
KeptReceived ==
    Cardinality({i \in 1..Len(received) :
                    args.include_non_final \/ _is_final_tx(received[i])})
LoadedLen == IF loaded = None THEN 0 ELSE Len(loaded[1])

\* C1: in a fresh run with include_non_final=true that ends on the empty page
\* (no cap, no failure cut it), the returned records are the received edges in
\* order: the first occurrence of an id is returned as received, the N-th
\* (N >= 2) has id "{N-1}-{id}" and original_id = id; so the number of
\* returned records with original id x is the number of received edges with
\* id x.
C1_DuplicatesRenamed ==
    (pc = "done" /\ args.include_non_final /\ loaded = None /\ end_reason = "empty") =>
        /\ Len(Returned) = Len(received)
        /\ \A i \in 1..Len(received) :
             IF Occurrence(i) = 1
             THEN Returned[i] = received[i]
             ELSE /\ Returned[i].node.id =
                        ToString(Occurrence(i) - 1) \o "-" \o received[i].node.id
                  /\ HasOriginalId(Returned[i])
                  /\ Returned[i].node.original_id = received[i].node.id
        /\ \A x \in UpstreamIds :
             Cardinality({i \in 1..Len(Returned) : OriginalId(Returned[i]) = x})
               = Cardinality({j \in 1..Len(received) : received[j].node.id = x})

\* C1 witness: such a run received the same id three times over two pages or
\* more and returned the third renamed "2-b"
C1_Witness ==
    /\ pc = "done" /\ args.include_non_final /\ loaded = None /\ end_reason = "empty"
    /\ batch_size < Len(received)
    /\ \E i \in 1..Len(Returned) :
         Returned[i].node.id = "2-b" /\ OriginalId(Returned[i]) = "b"

\* C2: no two records of the returned sequence have the same node id.
C2_ReturnedIdsUnique ==
    pc = "done" =>
        \A i, j \in 1..Len(Returned) : i # j => Returned[i].node.id # Returned[j].node.id

\* C3 as stated: after any response whose record list is empty (the count
\* response included) the run issues no further request and is DONE.
C3_AnyEmptyResponseEndsRun ==
    (count_edges = Some(0) \/ (last_page # None /\ last_page[1].received = 0)) =>
        pc = "done"

\* C3 amended: after a paging response whose record list is empty the run is
\* DONE, left through the empty-page break, whatever the batch size or cap.
C3_EmptyPageEndsRun ==
    (last_page # None /\ last_page[1].received = 0) =>
        pc = "done" /\ end_reason = "empty"

\* C3 witness: a run that had accepted records ended on an empty page
C3_Witness ==
    /\ last_page # None /\ last_page[1].received = 0
    /\ pc = "done" /\ Len(received) >= 2

\* C4: with a cap M > 0 no request is issued once M records are accumulated,
\* the returned sequence has at most M records, and it has exactly M when the
\* records read from the checkpoint plus the received records the filter keeps
\* are at least M.
C4_CapRespected ==
    Truthy(Cap) =>
        /\ pc = "page" => Len(all_transactions) < Cap[1]
        /\ pc = "done" => Len(Returned) <= Cap[1]
        /\ (pc = "done" /\ end_reason # "count_failed" /\ LoadedLen + KeptReceived >= Cap[1])
              => Len(Returned) = Cap[1]

\* C4 witness: a page overshot the cap and the result was cut to it, with
\* edges left unrequested upstream
C4_Witness ==
    /\ pc = "done" /\ Truthy(Cap) /\ end_reason = "cap"
    /\ Len(all_transactions) > Cap[1]
    /\ Len(Returned) = Cap[1]
    /\ Len(received) < Len(upstream)

\* C5: when every attempt for a page failed with a transport (or parse) error,
\* the page's cursor was appended to the error log exactly once and the run
\* returned exactly what it had accumulated before that page.
C5_FailedPageLoggedOnce ==
    (pc = "done" /\ end_reason = "failed") =>
        /\ page_logs = 1
        /\ Returned = all_transactions

\* the list the last successful save wrote, and the cursor of its last record
SavedList == IF saved = None THEN <<>> ELSE saved[1]
LastCursor(txs) == IF Len(txs) > 0 THEN txs[Len(txs)].cursor ELSE ""

\* C6: a run given the checkpoint path is about to issue its first paging
\* request with exactly the list the last successful save wrote as its
\* accumulated sequence (empty when there is no file) and with the cursor of
\* that list's last record (the empty cursor when there is none); and no
\* paging response it accepts holds an edge that is already in the list read.
\* (A file cut by a failed write is no save's list: the run raises on it
\* before any paging request.)
C6_CheckpointRoundTrip ==
    /\ (pc = "page" /\ last_page = None /\ args.check_point_path # None) =>
          /\ all_transactions = SavedList
          /\ cursor = LastCursor(SavedList)
          /\ check_point_file = None => (all_transactions = <<>> /\ cursor = "")
    /\ loaded # None =>
          \A i \in 1..Len(received), j \in 1..Len(loaded[1]) :
              received[i].cursor # loaded[1][j].cursor

\* C6 witness: a second run read a checkpoint of two records or more, one of
\* them a renamed duplicate, and went on to accept a page after it
C6_Witness ==
    /\ runs = 2 /\ args.check_point_path # None
    /\ loaded # None /\ Len(loaded[1]) >= 2
    /\ \E i \in 1..Len(loaded[1]) : HasOriginalId(loaded[1][i])
    /\ loaded[1] = SubSeq(all_transactions, 1, Len(loaded[1]))
    /\ Len(received) >= 1

\* C7: after a full page (received = requested) the next requested size is
\* min(2 * requested, max_size), never above the discovered maximum.
C7_FullPageDoublesBatch ==
    (pc = "page" /\ last_page # None /\ last_page[1].received = last_page[1].requested) =>
        /\ batch_size = Min(2 * last_page[1].requested, last_page[1].max_size)
        /\ batch_size <= actual_max_batch_size

\* C8: no failed attempt, an error payload of the service included, makes
\* get_all_transaction_summaries raise.
C8_NeverRaises == pc # "raised"

\* C9: the network attempts made for one page never exceed the effective
\* max_retries.
C9_AttemptsWithinBudget == pc \in {"page", "done"} => net_attempts <= max_retries

\* One step of a running call
RunStep ==
    \/ CountOk
    \/ \E k \in FailKinds : CountFail(k)
    \/ ErrorPayload
    \/ \E o \in SaveOutcomes : PageOk(o)
    \/ \E k \in FailKinds : PageFail(k)

\* C10: a started run that can take no further step has reached DONE.
C10_EndedRunIsDone == (runs > 0 /\ ~ENABLED RunStep) => pc = "done"

\* Every attempt eventually answers or fails: a running call keeps stepping
SpecLive == Init /\ [][Next]_vars /\ WF_vars(RunStep)
\* The loop itself ends: every started run returns or raises
RunEnds == (pc = "count") ~> (pc \in {"done", "raised"})

\* s is a prefix of t
IsPrefix(s, t) == Len(s) <= Len(t) /\ SubSeq(t, 1, Len(s)) = s
\* the local all_transactions as the call holds it at this point: the list
\* built in the loop, and after line 538 the truncated list that is returned
Accumulated ==
    IF pc = "done" /\ end_reason # "count_failed" THEN Returned ELSE all_transactions

\* C11 as stated: at every point of a run after a successful save the file
\* holds the accumulated sequence as it was at the last successful save, and
\* that is a prefix of the accumulated sequence the run holds now; the file
\* is the bare list and the resume cursor is the cursor of its last record.
C11_FileIsPrefixOfAccumulated ==
    saves > 0 =>
        /\ check_point_file = Some(json_dump(SavedList))
        /\ IsPrefix(json_load(check_point_file[1]), Accumulated)
        /\ check_point_file[1].t = "arr"
        /\ ReadCheckpoint(args.check_point_path, check_point_file).cursor
              = LastCursor(SavedList)

\* C11 amended: after a successful save of this run, and unless a later save
\* failed in the write and left a cut file that is not JSON, the file holds
\* exactly the accumulated sequence as it was at the last successful save and
\* reads back as that list; that list is a prefix of the sequence accumulated
\* in the loop; of the returned sequence, cut to the cap, it is a prefix or
\* an extension; the file is the bare list and the resume cursor is the
\* cursor of its last record.
C11_FileIsLastSave ==
    (saves > 0 /\ check_point_file # Some(TornText)) =>
        /\ check_point_file = Some(json_dump(SavedList))
        /\ json_load(check_point_file[1]) = SavedList
        /\ IsPrefix(SavedList, all_transactions)
        /\ pc = "done" => (IsPrefix(SavedList, Returned) \/ IsPrefix(Returned, SavedList))
        /\ check_point_file[1].t = "arr"
        /\ ReadCheckpoint(args.check_point_path, check_point_file).cursor
              = LastCursor(SavedList)

\* C11 witness: the run saved, accepted a further page whose save was not due
\* or failed, and is about to request again with more than the file holds
C11_Witness ==
    /\ saves > 0 /\ pc = "page"
    /\ Len(SavedList) >= 1
    /\ Len(all_transactions) > Len(SavedList)

\* the edges of the page accepted last, and the ones of them the finality
\* filter lets through
PrevPage == SubSeq(received, Len(received) - last_page[1].received + 1, Len(received))
Kept(e) == args.include_non_final \/ _is_final_tx(e)
LastKept ==
    CHOOSE i \in 1..Len(PrevPage) :
        Kept(PrevPage[i]) /\ \A j \in (i + 1)..Len(PrevPage) : ~Kept(PrevPage[j])

\* C12: a paging request that follows an accepted page carries the cursor of
\* the last record of that page that was kept, whether or not records
\* received after it were dropped; and within a run the position of the
\* requested cursor in the upstream order never decreases and grows with
\* every accepted page.
C12_CursorFollowsLastKept ==
    /\ []((pc = "page" /\ last_page # None) => cursor = PrevPage[LastKept].cursor)
    /\ [][(runs' = runs /\ pc' = "page") =>
            /\ PosOf(upstream, cursor') >= PosOf(upstream, cursor)
            /\ (pc = "page" /\ last_page' # last_page) =>
                  PosOf(upstream, cursor') > PosOf(upstream, cursor)]_vars

\* C12 witness: the last record of the page accepted last was dropped by the
\* finality filter, and the next request resumes after the record before it
C12_Witness ==
    /\ pc = "page" /\ last_page # None /\ ~args.include_non_final
    /\ Len(PrevPage) = 2 /\ LastKept = 1
    /\ cursor = PrevPage[1].cursor /\ cursor # PrevPage[2].cursor

\* the received edges the finality filter lets through, in the order received,
\* and the records this run appended after the ones read from the checkpoint
KeptReceivedSeq == SelectSeq(received, Kept)
Appended == SubSeq(all_transactions, LoadedLen + 1, Len(all_transactions))
\* out is the edge e as received, up to the id rewrite of a duplicate
SameRecord(out, e) ==
    /\ out.cursor = e.cursor
    /\ out.node.block = e.node.block
    /\ OriginalId(out) = e.node.id

\* C13: the records the run appended are, in order and up to the id rewrite,
\* the received edges that pass the finality filter, taken in the order of
\* the pages and of the elements within a page (a subsequence of the
\* concatenated pages); all the received edges when include_non_final=true;
\* and the returned sequence is what was read and appended, or its cut to the
\* cap.
C13_OrderPreserved ==
    /\ Len(Appended) = Len(KeptReceivedSeq)
    /\ \A i \in 1..Len(Appended) : SameRecord(Appended[i], KeptReceivedSeq[i])
    /\ args.include_non_final => Len(Appended) = Len(received)
    /\ (pc = "done" /\ end_reason # "count_failed") => IsPrefix(Returned, all_transactions)

\* C13 witness: a finished run received three edges over two pages, dropped
\* the first and returned the other two in the order received
C13_Witness ==
    /\ pc = "done" /\ ~args.include_non_final
    /\ Len(received) = 3 /\ batch_size = 2
    /\ Len(Returned) = 2
    /\ Returned[1].node.id # Returned[2].node.id
    /\ ~Kept(received[1])

\* a record that carries a block with an integer height
HasIntegerHeight(tx) == tx.node.block # JNull /\ tx.node.block.height.t = "int"
\* the index in received of the k-th edge that carries such a block
FinalIndex(k) ==
    CHOOSE i \in 1..Len(received) :
        /\ HasIntegerHeight(received[i])
        /\ Cardinality({j \in 1..i : HasIntegerHeight(received[j])}) = k

\* C14: with include_non_final=false every record the run appended carries a
\* block with an integer height; the seen count of an id is the number of
\* received edges with that id, dropped ones included; and the k-th record
\* appended is the k-th received edge with such a block, under its own id
\* when it is the first received edge with that id and renamed
\* "{N-1}-{id}" with original_id when it is the N-th, dropped ones counted.
C14_NonFinalDroppedButCounted ==
    ~args.include_non_final =>
        /\ \A k \in 1..Len(Appended) : HasIntegerHeight(Appended[k])
        /\ \A x \in UpstreamIds :
             seen_ids[x] = Cardinality({j \in 1..Len(received) : received[j].node.id = x})
        /\ Len(Appended) = Cardinality({j \in 1..Len(received) : HasIntegerHeight(received[j])})
        /\ \A k \in 1..Len(Appended) :
             LET i == FinalIndex(k)
             IN  IF Occurrence(i) = 1
                 THEN Appended[k] = received[i]
                 ELSE /\ Appended[k].node.id =
                            ToString(Occurrence(i) - 1) \o "-" \o received[i].node.id
                      /\ HasOriginalId(Appended[k])
                      /\ Appended[k].node.original_id = received[i].node.id

\* C14 witness: a run with include_non_final=false received an edge without a
\* block and then a mined edge with the same id; it returned the second only,
\* renamed "1-b"
C14_Witness ==
    /\ pc = "done" /\ ~args.include_non_final
    /\ Len(received) >= 2
    /\ received[1].node.id = "b" /\ received[1].node.block = JNull
    /\ received[2].node.id = "b" /\ HasIntegerHeight(received[2])
    /\ Len(Returned) >= 1
    /\ Returned[1].node.id = "1-b" /\ OriginalId(Returned[1]) = "b"
    /\ Returned[1].cursor = received[2].cursor

\* The run in which every save succeeds, as far as it has got when it has
\* received as many edges as this run: computed from the arguments, the list
\* read from the checkpoint and the upstream, page after page
LoadedList == IF loaded = None THEN <<>> ELSE loaded[1]
RefStart ==
    [all_transactions |-> LoadedList,
     cursor |-> LastCursor(LoadedList),
     seen_ids |-> ZeroSeen,
     batch_size |-> IF runs = 0 THEN ConfigInitialBatchSize
                    ELSE OrDefault(args.initial_batch_size, ConfigInitialBatchSize),
     actual_max_batch_size |-> IF runs = 0 THEN ConfigMaxBatchSize
                               ELSE OrDefault(args.max_batch_size, ConfigMaxBatchSize),
     received |-> <<>>]
RECURSIVE RefRun(_)
RefRun(r) ==
    IF Len(r.received) >= Len(received) THEN r
    ELSE LET page == ServePage(upstream, r.cursor, r.batch_size)
             p == ProcessPage(page, 1, r.seen_ids, <<>>, args.include_non_final)
             kept == p.unique_new_transactions
             sizes == AfterUpdateBatchSize(Len(page), r.batch_size, r.actual_max_batch_size)
             exit == PageExit(page, kept)
         IN  IF exit = "empty" THEN r
             ELSE IF exit = "nothing_kept"
             THEN [r EXCEPT !.all_transactions = @ \o kept, !.seen_ids = p.seen_ids,
                            !.received = @ \o page]
             ELSE RefRun([all_transactions |-> r.all_transactions \o kept,
                          cursor |-> NextCursor(kept),
                          seen_ids |-> p.seen_ids,
                          batch_size |-> sizes[1],
                          actual_max_batch_size |-> sizes[2],
                          received |-> r.received \o page])
\* C15: whatever the saves of a run did, the run has received the edges, holds
\* the accumulated sequence, the cursor, the seen counts and the batch sizes,
\* and returns the sequence, of the run in which every save succeeds; and at
\* a page whose save fails the call does not leave by an exception and goes
\* on to the next request, unless the cap is reached or the page kept nothing.
C15_SaveFailureInvisible ==
    /\ [](LET r == RefRun(RefStart)
          IN  /\ received = r.received
              /\ all_transactions = r.all_transactions
              /\ cursor = r.cursor
              /\ seen_ids = r.seen_ids
              /\ batch_size = r.batch_size
              /\ actual_max_batch_size = r.actual_max_batch_size
              /\ (pc = "done") =>
                    Returned = Truncate(args.max_total_transactions, r.all_transactions))
    /\ [][(PageOk("open_fails") \/ PageOk("write_fails")) =>
            /\ pc' \in {"page", "done"}
            /\ pc' = "done" =>
                  \/ /\ end_reason' = "cap"
                     /\ Truthy(Cap) /\ Len(all_transactions') >= Cap[1]
                  \/ /\ end_reason' = "nothing_kept"
                     /\ last_page'[1].received > 0 /\ last_page'[1].kept = 0]_vars

\* C15 witness: every save of a run with check_point_step=1 failed, the last
\* one in the write, which left a cut file, and the run went through all the
\* pages and returned every record upstream
C15_Witness ==
    /\ pc = "done" /\ end_reason = "empty" /\ runs = 1
    /\ args.check_point_path # None /\ args.check_point_step = 1
    /\ saves = 0 /\ check_point_file = Some(TornText)
    /\ Len(upstream) >= 2 /\ batch_size = 1
    /\ Len(Returned) = Len(upstream)

\* a range whose two bounds are given with min >= max
BadBounds(lo, hi) == lo # None /\ hi # None /\ ~(lo[1] < hi[1])
BadRange(a) ==
    BadBounds(a.min_ingested_at, a.max_ingested_at) \/ BadBounds(a.min_block, a.max_block)

\* C16: a call with a bad range has raised, without a result, before any
\* network attempt: no response was accepted, no attempt failed or was
\* counted, the error log and the checkpoint file are as they were before
\* the call, and the call takes no further step.
C16_BadRangeFailsFast ==
    /\ []((runs > 0 /\ BadRange(args)) =>
            /\ pc = "raised" /\ end_reason = "invalid" /\ result = None
            /\ count_edges = None /\ last_page = None /\ received = <<>>
            /\ stats_attempt = 0 /\ attempt = 0 /\ net_attempts = 0
            /\ budget = ScopeFailures(scope))
    /\ [][(runs' = runs + 1 /\ BadRange(args')) =>
            /\ pc' = "raised"
            /\ error_log' = error_log
            /\ check_point_file' = check_point_file]_vars
    /\ [][~(runs > 0 /\ BadRange(args) /\ runs' = runs)]_vars

\* C16 witness: a call with min_block = max_block has raised with records
\* waiting upstream and both files untouched
C16_Witness ==
    /\ pc = "raised" /\ end_reason = "invalid"
    /\ args.min_block = Some(2) /\ args.max_block = Some(2)
    /\ Len(upstream) >= 1
    /\ error_log = <<>> /\ check_point_file = None

\* the value the run uses for an optional argument, as C18 has it: the value
\* passed, whatever it is, and the configured default when none is passed
PassedOr(x, default) == IF x = None THEN default ELSE x[1]

\* C18: a call that has resolved its configuration uses, for each of
\* initial_batch_size, max_batch_size, max_retries, retry_delay and
\* batch_sleep_time, the value the caller passed (0 included), and the
\* configured default only when the argument was left out.
C18_ExplicitArgsOverride ==
    pc = "count" =>
        /\ batch_size = PassedOr(args.initial_batch_size, ConfigInitialBatchSize)
        /\ actual_max_batch_size = PassedOr(args.max_batch_size, ConfigMaxBatchSize)
        /\ max_retries = PassedOr(args.max_retries, ConfigMaxRetries)
        /\ retry_delay = PassedOr(args.retry_delay, ConfigRetryDelay)
        /\ batch_sleep_time = PassedOr(args.batch_sleep_time, ConfigBatchSleepTime)

\* C19: when the page accepted last was short (0 < received < requested), the
\* discovered maximum is the received count and the next request asks for
\* that many.
C19_ShortPageLowersBatch ==
    (pc = "page" /\ last_page # None
       /\ 0 < last_page[1].received /\ last_page[1].received < last_page[1].requested) =>
        /\ actual_max_batch_size = last_page[1].received
        /\ batch_size = last_page[1].received

\* C20: _update_batch_size called for a full page (new_count = current_size)
\* with 2 * current_size > max_size returns (current_size, current_size).
C20_FullPageAtCeilingCollapses ==
    (last_page # None
       /\ last_page[1].received = last_page[1].requested
       /\ 2 * last_page[1].requested > last_page[1].max_size) =>
        last_page[1].update = <<last_page[1].requested, last_page[1].requested>>

\* C17: a run whose count request failed for good is done with the empty
\* sequence as its result; it accepted no page, made no paging attempt, read
\* no checkpoint and saved none; the file is what the last successful save of
\* an earlier run left (or the cut text a later save left when its write
\* failed), no step of the count stage touches it, and the run takes no step
\* after the failure.
C17_CountFailureAborts ==
    /\ [](end_reason = "count_failed" =>
            /\ pc = "done" /\ result = Some(<<>>)
            /\ last_page = None /\ received = <<>> /\ net_attempts = 0
            /\ loaded = None /\ saves = 0
            /\ (check_point_file # Some(TornText) =>
                  check_point_file = IF saved = None THEN None ELSE Some(json_dump(saved[1]))))
    /\ [][(pc' = "count" \/ end_reason' = "count_failed") =>
            check_point_file' = check_point_file]_vars
    /\ [][~(end_reason = "count_failed" /\ runs' = runs)]_vars

\* C17 witness: the count request of a second run, given the path of a
\* checkpoint with records, failed for good; the run returned the empty
\* sequence and the file still holds the records
C17_Witness ==
    /\ end_reason = "count_failed" /\ runs = 2
    /\ args.check_point_path # None
    /\ check_point_file # None /\ check_point_file # Some(TornText)
    /\ Len(json_load(check_point_file[1])) >= 1
    /\ result = Some(<<>>)

(* ------------------- checkpoint cadence and the states ----------------- *)
\* the accumulated length at the last save of this run, or at its start
SaveBase == IF save_at = None THEN LoadedLen ELSE save_at[1]

\* C21: with a checkpoint path and a step K > 0, once a page has been
\* accepted the accumulated sequence has grown by fewer than K records since
\* the last save of the run (or since the run started from its checkpoint):
\* a growth of K or more has triggered a save at that page.
C21_SaveEveryKRecords ==
    (/\ pc \in {"page", "done"}
     /\ last_page # None
     /\ args.check_point_path # None
     /\ args.check_point_step > 0) =>
        Len(all_transactions) - SaveBase < args.check_point_step

\* C22: while the call running (or just started) has no checkpoint path, or
\* has a check_point_step of 0 or less, no step writes the checkpoint file:
\* its content stays what it was before the call.
C22_NoPathOrStepNoWrite ==
    [][(args'.check_point_path = None \/ args'.check_point_step <= 0) =>
           check_point_file' = check_point_file]_vars

\* a second call with a path and a step <= 0 loaded the file a first call
\* left, accumulated more records and ended
C22_Witness ==
    /\ pc = "done"
    /\ args.check_point_path # None
    /\ args.check_point_step <= 0
    /\ loaded # None
    /\ check_point_file = Some(json_dump(loaded[1]))
    /\ Len(loaded[1]) > 0
    /\ Len(all_transactions) > Len(loaded[1])

\* the last accepted page held records and the filter kept none of them
NothingKeptPage ==
    /\ last_page # None
    /\ last_page[1].received > 0
    /\ last_page[1].kept = 0

\* C23: once a non-empty page has been accepted from which nothing was kept,
\* the run is over: the call has returned, the cursor is still the one that
\* page was requested with, that page was the last request, and no further
\* step of the run follows, whatever the upstream still holds.
C23_NothingKeptEndsRun ==
    /\ [](NothingKeptPage =>
            /\ pc = "done"
            /\ end_reason = "nothing_kept"
            /\ cursor = last_page[1].cursor
            /\ sent = Some(Payload(FALSE, last_page[1].cursor, last_page[1].requested, args))
            /\ Returned = Truncate(Cap, all_transactions))
    /\ [][NothingKeptPage => ~NothingKeptPage' \/ UNCHANGED vars]_vars

\* the run ended on such a page although a final record lies behind it
C23_Witness ==
    /\ NothingKeptPage
    /\ pc = "done"
    /\ ~args.include_non_final
    /\ \E i \in 1..Len(upstream) :
          /\ i > PosOf(upstream, cursor) + last_page[1].received
          /\ _is_final_tx(upstream[i])

\* C24 as stated: the checkpoint is loaded before the count request is
\* issued, so once a call given a checkpoint path has issued a count request,
\* and while that request is still unanswered, a file that existed when the
\* call started, holding records, has been loaded and seeds the accumulated
\* sequence.  (No step writes the file while the count
\* request is out, so the file seen here is the file the call started with;
\* a file cut by a failed write is left aside, as no load can read it.)
C24_CheckpointLoadedBeforeCount ==
    (/\ pc = "count"
     /\ sent # None /\ sent[1].is_initial_request
     /\ args.check_point_path # None
     /\ check_point_file # None
     /\ check_point_file # Some(TornText)
     /\ Len(json_load(check_point_file[1])) >= 1) =>
        /\ loaded # None
        /\ all_transactions = json_load(check_point_file[1])

\* the positions a call passes through, in order
PcOrder ==
    /\ (pc = "count" => pc' \in {"count", "page", "done", "raised"})
    /\ (pc = "page" => pc' \in {"page", "done", "raised"})
    /\ (pc \in {"done", "raised"} => (pc' = pc \/ runs' = runs + 1))

\* C24: a call passes count request, paging and its end in this order.  While
\* the count request is out nothing is loaded or accumulated and only count
\* requests are sent; the checkpoint is read in the step that accepts the
\* count response, before the first paging request; paging requests are sent
\* only after the count response; after the end of a call no request is sent
\* until the next call.
C24_CountThenLoadThenPage ==
    /\ [](/\ (pc = "count" =>
                /\ loaded = None
                /\ all_transactions = <<>>
                /\ cursor = ""
                /\ count_edges = None
                /\ last_page = None
                /\ (sent # None => sent[1].is_initial_request))
           /\ (pc = "page" => count_edges # None)
           /\ (loaded # None => count_edges # None)
           /\ ((sent # None /\ ~sent[1].is_initial_request) => count_edges # None))
    /\ [][/\ PcOrder
           /\ ((loaded' # loaded /\ loaded' # None) =>
                 (pc = "count" /\ count_edges = None /\ count_edges' # None))
           /\ ((pc \in {"done", "raised"} /\ runs' = runs) => sent' = sent)]_vars

\* the count response was accepted, the checkpoint of an earlier call is
\* loaded and no paging request has been sent yet
C24_Witness ==
    /\ pc = "page"
    /\ loaded # None
    /\ Len(loaded[1]) > 0
    /\ all_transactions = loaded[1]
    /\ cursor = loaded[1][Len(loaded[1])].cursor
    /\ sent # None
    /\ sent[1].is_initial_request

(* ------------------------ retries and failures ------------------------- *)
\* C25: from the first attempt of a request on, every attempt of it posts the
\* same payload: cursor, limit and range filters are those the driver holds
\* for the page, and they stay so in every later step of the run for that
\* page, up to its acceptance or the end of the run.
C25_AttemptsRepeatTheRequest ==
    /\ []((pc = "page" /\ net_attempts > 0) =>
             sent = Some(Payload(FALSE, cursor, batch_size, args)))
    /\ []((pc = "count" /\ stats_attempt > 0) =>
             sent = Some(Payload(TRUE, "", StatsLimit, args)))
    /\ [][((pc = "page" /\ net_attempts > 0) \/ (pc = "count" /\ stats_attempt > 0)) =>
             sent' = sent]_vars

\* a page after the first one is on its third attempt or later, under a
\* block-height filter
C25_Witness ==
    /\ pc = "page"
    /\ net_attempts >= 2
    /\ cursor # ""
    /\ args.min_block # None
    /\ sent = Some(Payload(FALSE, cursor, batch_size, args))
    /\ sent[1].limit > 1

\* a step of a running call that accepts no response: an attempt that fails
FailedAttempt ==
    /\ pc \in {"count", "page"}
    /\ last_page' = last_page
    /\ count_edges' = count_edges

\* C26: an attempt that fails leaves the accumulated sequence, the seen-id
\* counts, the cursor and both batch sizes as they were, whether the request
\* is retried or the failure is definitive; a definitive page failure returns
\* the sequence accumulated before it.
C26_FailedAttemptKeepsRunState ==
    [][FailedAttempt =>
         /\ UNCHANGED <<all_transactions, seen_ids, cursor, batch_size,
                        actual_max_batch_size, received, check_point_file>>
         /\ (end_reason' = "failed" => result' = Some(all_transactions))]_vars

\* a page failed for good after records had been accumulated
C26_Witness ==
    /\ pc = "done"
    /\ end_reason = "failed"
    /\ Len(all_transactions) > 0
    /\ cursor = all_transactions[Len(all_transactions)].cursor
    /\ Returned = all_transactions
    /\ \E x \in UpstreamIds : seen_ids[x] > 0

\* C27: the error log of a single call records exactly its definitive
\* failures: it holds a line only once a request has failed for good, which
\* ends the call, and then it holds that one line, the cursor of the request
\* that failed; a call that ended on an empty page or is still paging has
\* logged nothing.
C27_LogRecordsDefinitiveFailures ==
    error_log # <<>> =>
        /\ pc = "done"
        /\ end_reason \in {"failed", "count_failed"}
        /\ error_log = <<IF end_reason = "failed" THEN cursor ELSE "">>

(* ----------------------- duplicates across calls ----------------------- *)
\* C28: a call resumed from a checkpoint counts the reloaded records as seen:
\* a record received after the resume whose id a reloaded record carries is
\* emitted renamed, and so the sequence the call returns has no id twice.
C28_ResumeKeepsIdsUnique ==
    (pc = "done" /\ end_reason # "count_failed" /\ loaded # None) =>
        \A i, j \in 1..Len(Returned) :
            i # j => Returned[i].node.id # Returned[j].node.id

\* the fields of a node other than its identity
OtherFields(node) == DOMAIN node \ {"id", "original_id"}

\* out is a renamed copy of the received edge e: only the identity differs
RenamedCopyOf(out, e) ==
    /\ DOMAIN out = DOMAIN e
    /\ out.cursor = e.cursor
    /\ DOMAIN out.node = DOMAIN e.node \cup {"original_id"}
    /\ \A f \in OtherFields(e.node) : out.node[f] = e.node[f]
    /\ out.node.original_id = e.node.id
    /\ out.node.id # e.node.id

\* C29: an appended record that was renamed is a copy of the received edge it
\* stands for that differs only in node.id and the added node.original_id:
\* cursor, block and every other field are equal; an appended record that was
\* not renamed is the received edge; and the received edges themselves are
\* still what the service served.
C29_RenameTouchesOnlyIdentity ==
    /\ Len(Appended) = Len(KeptReceivedSeq)
    /\ \A i \in 1..Len(Appended) :
          IF HasOriginalId(Appended[i])
          THEN RenamedCopyOf(Appended[i], KeptReceivedSeq[i])
          ELSE Appended[i] = KeptReceivedSeq[i]
    /\ \A i \in 1..Len(received) :
          received[i] = upstream[PosOf(upstream, received[i].cursor)]

\* a renamed record was appended whose received edge carries a block
C29_Witness ==
    \E i \in 1..Len(Appended) :
        /\ HasOriginalId(Appended[i])
        /\ KeptReceivedSeq[i].node.block # JNull
        /\ Appended[i].node.block = KeptReceivedSeq[i].node.block
        /\ ~HasOriginalId(KeptReceivedSeq[i])

\* the call before this one was made with the same arguments and got the
\* same responses: the same pages in the same order and the same ending
SameCallAgain ==
    /\ prev # None
    /\ pc = "done"
    /\ prev[1].args = args
    /\ prev[1].received = received
    /\ prev[1].end_reason = end_reason

\* how often the id x was received in this call
ReceivedCount(x) == Cardinality({i \in 1..Len(received) : received[i].node.id = x})

\* C30: without a checkpoint path the duplicate counter is local to a call:
\* during any call, first or later, the count of an id is the number of
\* times this call received it, and a call that repeats the call before it
\* (same arguments, same responses) returns the same sequence.
C30_CounterLocalToCall ==
    /\ (pc \in {"page", "done"} /\ args.check_point_path = None) =>
          \A x \in UpstreamIds : seen_ids[x] = ReceivedCount(x)
    /\ SameCallAgain => Returned = prev[1].result

\* a call repeated the call before it, both received an id twice and both
\* returned the second occurrence renamed
C30_Witness ==
    /\ SameCallAgain
    /\ runs = 2
    /\ Len(Returned) >= 2
    /\ ~HasOriginalId(Returned[1])
    /\ HasOriginalId(Returned[2])
    /\ Returned = prev[1].result

(* ------------------- the count response and the cap -------------------- *)
\* C31: the records of the count response serve the total only: the step
\* that accepts it appends nothing, counts no id and leaves the cursor
\* empty in a run without a checkpoint, so that in every later state the
\* count of an id is the number of times the paging responses delivered it
\* and the first record of the first page, when kept, is appended as it was
\* received, unrenamed.
C31_CountRecordsUnused ==
    /\ []((pc \in {"page", "done"} /\ loaded = None /\ end_reason # "count_failed") =>
             /\ \A x \in UpstreamIds : seen_ids[x] = ReceivedCount(x)
             /\ Len(all_transactions) <= Len(received)
             /\ (Len(received) > 0 /\ Kept(received[1])) =>
                    all_transactions[1] = received[1])
    /\ [][(pc = "count" /\ pc' = "page" /\ loaded' = None) =>
             /\ seen_ids' = ZeroSeen
             /\ all_transactions' = <<>>
             /\ received' = <<>>
             /\ cursor' = ""
             /\ total_count' = Len(upstream)]_vars

\* the count response held two records with the same id, and the first page
\* delivered the first of them as a first occurrence
C31_Witness ==
    /\ pc \in {"page", "done"}
    /\ count_edges # None
    /\ count_edges[1] >= 2
    /\ upstream[1].node.id = upstream[2].node.id
    /\ last_page # None
    /\ last_page[1].cursor = ""
    /\ Len(all_transactions) > 0
    /\ all_transactions[1] = upstream[1]
    /\ seen_ids[upstream[1].node.id] = last_page[1].received

\* C32: while a call pages, every step leaves the accumulated sequence as a
\* prefix of the new one, the records reloaded from the checkpoint stay its
\* first records, and the returned sequence is the accumulated one or, only
\* under a cap, its first max_total_transactions records.
C32_AccumulatedAppendOnly ==
    /\ []((loaded # None /\ pc \in {"page", "done"}) =>
             IsPrefix(loaded[1], all_transactions))
    /\ []((pc = "done" /\ end_reason # "count_failed") =>
             /\ IsPrefix(Returned, all_transactions)
             /\ Returned # all_transactions =>
                    (Truthy(Cap) /\ Len(Returned) = Cap[1]))
    /\ [][(pc = "page" /\ runs' = runs) =>
             IsPrefix(all_transactions, all_transactions')]_vars

\* a call that reloaded records accepted at least two pages that added
\* records behind them and ended
C32_Witness ==
    /\ pc = "done"
    /\ loaded # None
    /\ Len(loaded[1]) > 0
    /\ Len(all_transactions) >= Len(loaded[1]) + 2
    /\ last_page # None
    /\ last_page[1].requested = 1
    /\ Returned = all_transactions

\* the call has a cap M > 0 and the checkpoint it loaded, after its count
\* request was answered, holds at least M records
LoadedReachesCap == Truthy(Cap) /\ loaded # None /\ Len(loaded[1]) >= Cap[1]

\* C33: a call with a cap M > 0 that loaded a checkpoint of at least M
\* records has ended on the cap: the count request is the only request it
\* sent, no page was accepted, no save was triggered, the step that loaded the
\* checkpoint left the file as it was, and the call returned the first M
\* records of the checkpoint.
C33_CheckpointAtCapEndsRun ==
    /\ [](LoadedReachesCap =>
            /\ pc = "done"
            /\ end_reason = "cap"
            /\ Returned = SubSeq(loaded[1], 1, Cap[1])
            /\ sent = Some(Payload(TRUE, "", StatsLimit, args))
            /\ last_page = None
            /\ received = <<>>
            /\ net_attempts = 0
            /\ saves = 0
            /\ save_at = None)
    /\ [][(LoadedReachesCap' /\ runs' = runs) =>
             check_point_file' = check_point_file]_vars

\* the checkpoint loaded holds more records than the cap
C33_Witness ==
    /\ LoadedReachesCap
    /\ Len(loaded[1]) > Cap[1]
    /\ pc = "done"
    /\ Len(Returned) = Cap[1]
    /\ Returned[1] = loaded[1][1]
    /\ check_point_file # None


====
